---------------------------- MODULE Spec2Model ----------------------------
(***************************************************************************)
(* Model of chatbot_backend/main.py: the rule evaluators (emotion -> stress *)
(* mapping, academic-stress keyword classifier, risk keyword classifier),   *)
(* the overall-status cascade, the two response composers, and the          *)
(* in-memory session store with the /analyze, /chat/start and /chat/message *)
(* handlers.                                                                *)
(*                                                                          *)
(* Texts are TLA+ strings; str.lower(), str.strip() and the `in` substring  *)
(* test are computed character by character.  Python lists are objects:     *)
(* Sessions maps a session id to the identity of a list, and `heap` holds   *)
(* the contents of every list, so that history.append(...) is seen by every *)
(* holder of the same list and history[-20:] is a new list.                 *)
(***************************************************************************)
EXTENDS Integers, Sequences, FiniteSets, TLC

VARIABLES
    Sessions,   \* main.py:315  Sessions: session id -> identity of its history list
    heap,       \* contents of the list objects, by identity
    pc,         \* per worker thread: position inside chat_message
    local,      \* per worker thread: the local variables of chat_message
    resp,       \* history variable: the last response sent, with its request
    started,    \* number of exchanges that have passed validation (exchange ids)
    log,        \* history variable: per session id, every turn appended, in order
    probe       \* last direct application of a rule evaluator: arguments and result

vars == <<Sessions, heap, pc, local, resp, started, log, probe>>

---------------------------------------------------------------------------
\* Bounds of the model.

\* Worker threads that may run handlers at the same time.
MaxThreads == 2
\* Session ids that chat_start may issue.
MaxSessions == 2
\* Exchanges started under the concurrent specifications.
MaxExchanges == 2
\* Exchanges started under the sequential specification.
MaxSeqExchanges == 11

\* main.py:412  history[-20:]
MaxHistory == 20

Threads == 1..MaxThreads
SessionIds == 1..MaxSessions
\* A session id that chat_start never issues.
UnknownId == MaxSessions + 1
\* Identities of list objects: one per session, one per thread, and the slice
\* being built.
ListIds == 1..(MaxSessions + MaxThreads + 1)
\* The value of a variable that refers to no list.
NoList == MaxSessions + MaxThreads + 2

---------------------------------------------------------------------------
\* Strings.

UpperChars == "ABCDEFGHIJKLMNOPQRSTUVWXYZ"
LowerChars == "abcdefghijklmnopqrstuvwxyz"

CharAt(s, i) == SubSeq(s, i, i)

\* str.lower() on one character.
LowerChar(c) ==
    IF \E i \in 1..26 : CharAt(UpperChars, i) = c
    THEN CharAt(LowerChars, CHOOSE i \in 1..26 : CharAt(UpperChars, i) = c)
    ELSE c

\* str.lower()
RECURSIVE lower(_)
lower(s) ==
    IF Len(s) = 0 THEN ""
    ELSE LowerChar(CharAt(s, 1)) \o lower(SubSeq(s, 2, Len(s)))

IsSpace(c) == c \in {" ", "\t", "\n"}

\* str.strip(): leading and trailing whitespace removed.
strip(s) ==
    LET idx == {i \in 1..Len(s) : ~IsSpace(CharAt(s, i))}
    IN  IF idx = {} THEN ""
        ELSE LET lo == CHOOSE i \in idx : \A j \in idx : i <= j
                 hi == CHOOSE i \in idx : \A j \in idx : j <= i
             IN  SubSeq(s, lo, hi)

\* Python's `word in text` for strings: substring containment.
Contains(text, word) ==
    \E i \in 1..(Len(text) - Len(word) + 1) :
        SubSeq(text, i, i + Len(word) - 1) = word

\* any(word in text_lower for word in keywords)
AnyIn(keywords, text_lower) == \E word \in keywords : Contains(text_lower, word)

\* str.startswith
StartsWith(s, prefix) ==
    Len(s) >= Len(prefix) /\ SubSeq(s, 1, Len(prefix)) = prefix

\* ", ".join(items)
RECURSIVE JoinComma(_)
JoinComma(items) ==
    IF Len(items) = 0 THEN ""
    ELSE IF Len(items) = 1 THEN items[1]
    ELSE items[1] \o ", " \o JoinComma(Tail(items))

---------------------------------------------------------------------------
\* Enumerations.

\* The labels of the inference model (spec section 3, EmotionLabel).
Emotions == {"anger", "disgust", "fear", "joy", "neutral", "sadness", "surprise"}
StressTiers == {"low", "medium", "high"}
AcademicCategories ==
    {"academic_stress_low", "academic_stress_medium", "academic_stress_high", "burnout"}
RiskTiers == {"safe", "moderate_risk", "high_risk"}
OverallStatuses == {"critical", "high_stress", "moderate_stress", "low_stress", "normal"}

---------------------------------------------------------------------------
\* EMOTION -> BASIC STRESS

emotion_to_stress(emotion) ==
    IF emotion \in {"fear", "sadness", "anger", "disgust"} THEN "high"
    ELSE IF emotion \in {"surprise"} THEN "medium"
    ELSE "low"

---------------------------------------------------------------------------
\* ACADEMIC STRESS CLASSIFIER

high_keywords ==
    {"overwhelmed", "can't handle", "cannot handle", "suicidal", "hopeless",
     "panic", "breakdown", "giving up", "i'm done", "end it", "can't go on"}

medium_keywords ==
    {"stressed", "pressure", "anxious", "worried", "tired", "frustrated",
     "fear", "scared", "nervous"}

burnout_keywords ==
    {"burnout", "burnt out", "exhausted", "drained", "no energy", "empty", "fatigued"}

academic_keywords ==
    {"exams", "exam", "assignments", "assignment", "university", "deadlines",
     "studies", "lectures", "tests", "projects", "school"}

academic_stress_classifier_medium_first(text, emotion) ==
    LET text_lower == lower(text) IN
    IF AnyIn(high_keywords, text_lower) THEN "academic_stress_high"
    ELSE IF AnyIn(medium_keywords, text_lower) THEN "academic_stress_medium"
    ELSE IF AnyIn(burnout_keywords, text_lower) THEN "burnout"
    ELSE IF AnyIn(academic_keywords, text_lower) THEN
        IF emotion \in {"fear", "sadness", "anger"} THEN "academic_stress_high"
        ELSE IF emotion = "surprise" THEN "academic_stress_medium"
        ELSE "academic_stress_low"
    ELSE IF emotion \in {"fear", "sadness", "anger"} THEN "academic_stress_medium"
    ELSE "academic_stress_low"

academic_stress_classifier(text, emotion) ==
    LET text_lower == lower(text) IN
    IF AnyIn(high_keywords, text_lower) THEN "academic_stress_high"
    ELSE IF AnyIn(burnout_keywords, text_lower) THEN "burnout"
    ELSE IF AnyIn(medium_keywords, text_lower) THEN "academic_stress_medium"
    ELSE IF AnyIn(academic_keywords, text_lower) THEN
        IF emotion \in {"fear", "sadness", "anger"} THEN "academic_stress_high"
        ELSE IF emotion = "surprise" THEN "academic_stress_medium"
        ELSE "academic_stress_low"
    ELSE IF emotion \in {"fear", "sadness", "anger"} THEN "academic_stress_medium"
    ELSE "academic_stress_low"

---------------------------------------------------------------------------
\* RISK DETECTOR

high_risk_keywords ==
    {"suicide", "kill myself", "end my life", "end it all", "i want to die",
     "i don't want to live", "no reason to live", "give up completely",
     "can't go on", "i want to end everything"}

moderate_risk_keywords ==
    {"hopeless", "worthless", "nothing matters", "tired of everything",
     "i don't care anymore", "empty inside"}

risk_detector(text) ==
    LET text_lower == lower(text) IN
    IF AnyIn(high_risk_keywords, text_lower) THEN "high_risk"
    ELSE IF AnyIn(moderate_risk_keywords, text_lower) THEN "moderate_risk"
    ELSE "safe"

---------------------------------------------------------------------------
\* OVERALL STATUS ENGINE

overall_status_engine_any_risk(emotion, stress, academic_stress, risk) ==
    IF risk # "safe" THEN "critical"
    ELSE IF academic_stress \in {"academic_stress_high", "burnout"} THEN "high_stress"
    ELSE IF academic_stress = "academic_stress_medium" \/ stress = "medium"
        THEN "moderate_stress"
    ELSE IF stress = "low" /\ academic_stress = "academic_stress_low" THEN "low_stress"
    ELSE "normal"

overall_status_engine_academic_first(emotion, stress, academic_stress, risk) ==
    IF academic_stress \in {"academic_stress_high", "burnout"} THEN "high_stress"
    ELSE IF risk = "high_risk" THEN "critical"
    ELSE IF risk = "moderate_risk" THEN "high_stress"
    ELSE IF academic_stress = "academic_stress_medium" \/ stress = "medium"
        THEN "moderate_stress"
    ELSE IF stress = "low" /\ academic_stress = "academic_stress_low" THEN "low_stress"
    ELSE "normal"

overall_status_engine_low_or(emotion, stress, academic_stress, risk) ==
    IF risk = "high_risk" THEN "critical"
    ELSE IF risk = "moderate_risk" THEN "high_stress"
    ELSE IF academic_stress \in {"academic_stress_high", "burnout"} THEN "high_stress"
    ELSE IF academic_stress = "academic_stress_medium" \/ stress = "medium"
        THEN "moderate_stress"
    ELSE IF stress = "low" \/ academic_stress = "academic_stress_low" THEN "low_stress"
    ELSE "normal"

overall_status_engine(emotion, stress, academic_stress, risk) ==
    IF risk = "high_risk" THEN "critical"
    ELSE IF risk = "moderate_risk" THEN "high_stress"
    ELSE IF academic_stress \in {"academic_stress_high", "burnout"} THEN "high_stress"
    ELSE IF academic_stress = "academic_stress_medium" \/ stress = "medium"
        THEN "moderate_stress"
    ELSE IF stress = "low" /\ academic_stress = "academic_stress_low" THEN "low_stress"
    ELSE "normal"

\* The typographic apostrophes and dashes of the source's messages are written
\* in ASCII here.
generate_response(overall_status, emotion, academic_stress, risk) ==
    IF overall_status = "critical" THEN
        "I'm really sorry that you're feeling this way. "
        \o "You're not alone, and your feelings are valid. "
        \o "This sounds extremely difficult, and it's important to get immediate support. "
        \o "If you can, please consider reaching out to someone you trust or a mental health professional. "
        \o "If you are in immediate danger or feel you might harm yourself, "
        \o "please contact your local emergency number right away."
    ELSE IF overall_status = "high_stress" THEN
        "It sounds like you're experiencing a lot of pressure right now. "
        \o "Thank you for sharing how you feel - it takes courage. "
        \o "Let's take this one step at a time. "
        \o "Could you tell me what part feels hardest for you at the moment?"
    ELSE IF overall_status = "moderate_stress" THEN
        "I understand that things feel challenging. "
        \o "It's okay to feel overwhelmed sometimes. "
        \o "You're handling more than you realize. "
        \o "Would you like to talk about what has been stressing you the most?"
    ELSE IF overall_status = "low_stress" THEN
        "I hear you. It seems like you're experiencing some stress, "
        \o "but you're still managing things. "
        \o "I'm here to support you - what would you like to focus on?"
    ELSE
        "Thank you for sharing. "
        \o "How can I support you today?"

---------------------------------------------------------------------------
\* THERAPY ENGINE

suggest_techniques(emotion, academic_stress) ==
    LET t1 == IF emotion \in {"fear", "surprise"}
              THEN <<"5-4-3-2-1 grounding exercise", "Box breathing (4-4-4-4)">>
              ELSE <<>>
        t2 == IF emotion \in {"sadness"}
              THEN t1 \o <<"Self-compassion check-in: talk to yourself kindly",
                           "Behavioral activation: small, doable action">>
              ELSE t1
        t3 == IF emotion \in {"anger"}
              THEN t2 \o <<"4-7-8 breathing to reduce arousal",
                           "Cognitive defusion: name the emotion, not the person">>
              ELSE t2
        t4 == IF academic_stress = "burnout"
              THEN t3 \o <<"Micro-break: 5 minutes away from screens",
                           "Energy audit: identify one drain and one battery">>
              ELSE t3
        techniques ==
              IF StartsWith(academic_stress, "academic_stress_")
              THEN t4 \o <<"Task chunking: 25-minute focus + 5-minute rest",
                           "Two-minute start: do the smallest possible step">>
              ELSE t4
    IN  IF Len(techniques) > 0
        THEN SubSeq(techniques, 1, IF Len(techniques) < 4 THEN Len(techniques) ELSE 4)
        ELSE <<"Mindful breathing (3 slow breaths)", "Name and note your feeling">>

generate_therapeutic_reply(user_text, emotion, stress, academic_stress, risk, history) ==
    IF risk = "high_risk" THEN
        [bot_message |->
            "I'm really sorry you're feeling this way. Your safety matters. "
            \o "If you feel at risk of harming yourself, please contact your local emergency number now. "
            \o "You can also reach your country's suicide prevention hotline or a trusted person nearby.",
         techniques |->
            <<"Call local emergency services",
              "Contact someone you trust",
              "Seek immediate professional help">>]
    ELSE
        LET opening == "Thank you for sharing that. "
            tone ==
                IF stress = "high" \/ academic_stress \in {"academic_stress_high", "burnout"}
                THEN "It sounds like a lot is on your plate right now. "
                     \o "Let's take this step by step. "
                ELSE IF stress = "medium"
                THEN "I hear that things feel challenging. "
                     \o "You're doing your best in a tough moment. "
                ELSE "I'm here with you. "
                     \o "Let's focus on what would help most. "
            techniques == suggest_techniques(emotion, academic_stress)
            technique_line ==
                "Would you like to try one of these now: " \o JoinComma(techniques) \o "?"
            academic_hint ==
                IF StartsWith(academic_stress, "academic_stress_") \/ academic_stress = "burnout"
                THEN " If this is about studies, we can pick one tiny task, set a 20-25 minute timer, "
                     \o "and pause for 5 minutes after. I can help you plan it."
                ELSE ""
            prompt_followup ==
                " What feels hardest at this moment, or what would you like us to focus on together?"
        IN  [bot_message |->
                opening \o tone \o technique_line \o academic_hint \o prompt_followup,
             techniques |-> techniques]

---------------------------------------------------------------------------
\* Requests, responses and the inference collaborator.

\* What the inference step (tokenizer + model + id2label) of one request yields:
\* a label, or InferenceError when it raises.  NoInference: the step did not run.
InferenceError == "InferenceError"
NoInference == "NoInference"
\* A label outside the seven.
OtherLabel == "love"

NoReq == [endpoint |-> "none", session_id |-> UnknownId, text |-> ""]
\* A response: the request it answers, what the inference step yielded for it,
\* the HTTP status and the body.
NoResp == [req |-> NoReq, infer |-> NoInference, status |-> 0, body |-> [detail |-> ""]]

AnalyzeReq(text) ==
    [endpoint |-> "analyze", session_id |-> UnknownId, text |-> text]
ChatReq(session_id, text) ==
    [endpoint |-> "chat_message", session_id |-> session_id, text |-> text]

\* raise HTTPException(status_code=..., detail=...)
HTTPException(req, infer, status_code, detail) ==
    [req |-> req, infer |-> infer, status |-> status_code, body |-> [detail |-> detail]]

NoLocal ==
    [req |-> NoReq, xid |-> 0, session_id |-> UnknownId, text |-> "", emotion |-> "",
     stress |-> "", academic_stress |-> "", risk |-> "", overall |-> "",
     history |-> NoList, bot_message |-> "", techniques |-> <<>>]

\* The list stored for a session.
History(s) == heap[Sessions[s]]

\* history[-20:]
LastTurns_first(history) ==
    SubSeq(history, 1, IF Len(history) < MaxHistory THEN Len(history) ELSE MaxHistory)

LastTurns(history) ==
    IF Len(history) <= MaxHistory THEN history
    ELSE SubSeq(history, Len(history) - MaxHistory + 1, Len(history))

\* Lists some variable still refers to.
Referenced(sess, loc) ==
    {sess[s] : s \in DOMAIN sess} \cup
    ({loc[t].history : t \in Threads} \ {NoList})

\* A new list object: an identity nothing refers to.
NewList(sess, loc) ==
    CHOOSE n \in ListIds \ Referenced(sess, loc) :
        \A m \in ListIds \ Referenced(sess, loc) : n <= m

\* Reference counting: a list nothing refers to any more is freed.
Collect(h, sess, loc) ==
    [n \in ListIds |-> IF n \in Referenced(sess, loc) THEN h[n] ELSE <<>>]

---------------------------------------------------------------------------
\* Inputs.

\* Message fragments; a message is any selection of them, in this order.
Fragments ==
    <<"I feel Overwhelmed ", "so drained ", "a bit nervous ", "my exam tomorrow ",
      "i want to die ", "worthless ">>

RECURSIVE Compose(_, _)
Compose(sel, i) ==
    IF i > Len(Fragments) THEN ""
    ELSE (IF i \in sel THEN Fragments[i] ELSE "") \o Compose(sel, i + 1)

Texts ==
    {Compose(sel, 1) : sel \in SUBSET (1..Len(Fragments))} \cup
    {"   ",
     "hello there",
     "I feel exhausted and drained from my assignments",
     "I want to end my life",
     "I'm a bit nervous about my exam tomorrow",
     "I CAN'T GO ON",
     "everything is hopeless",
     "empty inside",
     "tired of everything",
     "suicidal thoughts",
     "fearful of school"}

InferOutcomes == Emotions \cup {OtherLabel, InferenceError}

\* Messages and inference outcomes of the chat specifications.
ChatTexts == {"   ", "I want to end my life"}
ChatOutcomes == {"sadness", InferenceError}
DistinctTexts == {"I feel exhausted and drained from my assignments"}
DistinctOutcomes == {"sadness", OtherLabel}
SeqTexts == {"I feel exhausted and drained from my assignments", "I want to end my life"}
SeqOutcomes == {"sadness"}

---------------------------------------------------------------------------
\* The classification lines shared by both handlers (main.py:355-358, 400-403).

pipeline(text, emotion) ==
    LET stress == emotion_to_stress(emotion)
        academic_stress == academic_stress_classifier(text, emotion)
        risk == risk_detector(text)
        overall == overall_status_engine(emotion, stress, academic_stress, risk)
    IN  [stress |-> stress, academic_stress |-> academic_stress,
         risk |-> risk, overall |-> overall]

\* strip and pipeline over the inputs of the model, evaluated once.
strip_of ==
    [text \in Texts \cup ChatTexts \cup DistinctTexts \cup SeqTexts |-> strip(text)]

pipeline_of ==
    [text \in {strip_of[x] : x \in DOMAIN strip_of},
     emotion \in InferOutcomes |-> pipeline(text, emotion)]

---------------------------------------------------------------------------
\* POST /analyze

analyze_text(t, input, infer) ==
    /\ pc[t] = "idle"
    /\ LET req == AnalyzeReq(input.text)
           text == strip_of[input.text]
           emotion == infer
           r == pipeline_of[text, emotion]
           response == generate_response(r.overall, emotion, r.academic_stress, r.risk)
       IN  resp' =
                IF text = ""
                THEN HTTPException(req, NoInference, 400, "Input text cannot be empty.")
                ELSE IF infer = InferenceError
                \* the exception is caught at main.py:371
                THEN HTTPException(req, infer, 500, "Analysis failed")
                ELSE [req |-> req, infer |-> infer, status |-> 200, body |->
                         [emotion |-> emotion,
                          stress_level |-> r.stress,
                          academic_stress_category |-> r.academic_stress,
                          risk_level |-> r.risk,
                          overall_status |-> r.overall,
                          bot_response |-> response]]
    /\ UNCHANGED <<Sessions, heap, pc, local, started, log, probe>>

---------------------------------------------------------------------------
\* POST /chat/start

\* uuid.uuid4(): an identifier no session has.
uuid4 == CHOOSE s \in SessionIds \ DOMAIN Sessions :
            \A r \in SessionIds \ DOMAIN Sessions : s <= r

\* Sessions[session_id] = [] for an identifier that may be in use.
chat_start_reuse_id(t) ==
    /\ pc[t] = "idle"
    /\ \E session_id \in SessionIds :
        LET sess == [s \in DOMAIN Sessions \cup {session_id} |->
                        IF s = session_id THEN NoList ELSE Sessions[s]]
            new == NewList(sess, local)
        IN  /\ Sessions' = [sess EXCEPT ![session_id] = new]
            /\ heap' = [heap EXCEPT ![new] = <<>>]
            /\ resp' = [req |-> [NoReq EXCEPT !.endpoint = "chat_start"], infer |-> NoInference,
                       status |-> 200,
                        body |-> [session_id |-> session_id]]
    /\ UNCHANGED <<pc, local, started, log, probe>>

chat_start(t) ==
    /\ pc[t] = "idle"
    /\ SessionIds \ DOMAIN Sessions # {}
    /\ LET session_id == uuid4
           new == NewList(Sessions, local)
       IN  /\ Sessions' = [s \in DOMAIN Sessions \cup {session_id} |->
                              IF s = session_id THEN new ELSE Sessions[s]]
           /\ heap' = [heap EXCEPT ![new] = <<>>]
           /\ resp' = [req |-> [NoReq EXCEPT !.endpoint = "chat_start"], infer |-> NoInference,
                       status |-> 200,
                       body |-> [session_id |-> session_id]]
    /\ UNCHANGED <<pc, local, started, log, probe>>

---------------------------------------------------------------------------
\* POST /chat/message, one action per access to the shared store.  Handlers are
\* plain `def` endpoints, which the server runs on worker threads: between any
\* two of these steps another thread may run.

\* The locals of an exchange that passed validation and inference.
Classified(req, text, emotion) ==
    LET r == pipeline_of[text, emotion]
    IN  [NoLocal EXCEPT !.req = req, !.xid = started + 1,
                        !.session_id = req.session_id, !.text = text,
                        !.emotion = emotion, !.stress = r.stress,
                        !.academic_stress = r.academic_stress,
                        !.risk = r.risk, !.overall = r.overall]

\* An unknown session id is given a history instead of the 404.
chat_message_receive_create_session(t, input, infer) ==
    /\ pc[t] = "idle"
    /\ LET req == ChatReq(input.session_id, input.text)
           session_id == input.session_id
           text == strip_of[input.text]
       IN  IF text = "" THEN
               /\ resp' = HTTPException(req, NoInference, 400, "Input text cannot be empty.")
               /\ UNCHANGED <<Sessions, heap, pc, local, started>>
           ELSE IF infer = InferenceError THEN
               /\ resp' = HTTPException(req, infer, 500, "Chat failed")
               /\ UNCHANGED <<Sessions, heap, pc, local, started>>
           ELSE
               /\ Sessions' = IF session_id \in DOMAIN Sessions THEN Sessions
                              ELSE [s \in DOMAIN Sessions \cup {session_id} |->
                                       IF s = session_id THEN NewList(Sessions, local)
                                       ELSE Sessions[s]]
               /\ started' = started + 1
               /\ local' = [local EXCEPT ![t] = Classified(req, text, infer)]
               /\ pc' = [pc EXCEPT ![t] = "classified"]
               /\ UNCHANGED <<heap, resp>>
    /\ UNCHANGED <<log, probe>>

\* The user turn is appended before inference runs.
chat_message_receive_append_first(t, input, infer) ==
    /\ pc[t] = "idle"
    /\ LET req == ChatReq(input.session_id, input.text)
           session_id == input.session_id
           text == strip_of[input.text]
       IN  IF text = "" THEN
               /\ resp' = HTTPException(req, NoInference, 400, "Input text cannot be empty.")
               /\ UNCHANGED <<Sessions, heap, pc, local, started>>
           ELSE IF session_id \notin DOMAIN Sessions THEN
               /\ resp' = HTTPException(req, NoInference, 404, "Session not found. Start a new chat.")
               /\ UNCHANGED <<Sessions, heap, pc, local, started>>
           ELSE IF infer = InferenceError THEN
               /\ heap' = [heap EXCEPT ![Sessions[session_id]] =
                      Append(@, [role |-> "user", content |-> text])]
               /\ resp' = HTTPException(req, infer, 500, "Chat failed")
               /\ UNCHANGED <<Sessions, pc, local, started>>
           ELSE
               /\ started' = started + 1
               /\ local' = [local EXCEPT ![t] = Classified(req, text, infer)]
               /\ pc' = [pc EXCEPT ![t] = "classified"]
               /\ UNCHANGED <<Sessions, heap, resp>>
    /\ UNCHANGED <<log, probe>>

\* main.py:386-403: validation, session lookup, inference, classification.
chat_message_receive(t, input, infer) ==
    /\ pc[t] = "idle"
    /\ LET req == ChatReq(input.session_id, input.text)
           session_id == input.session_id
           text == strip_of[input.text]
       IN  IF text = "" THEN
               /\ resp' = HTTPException(req, NoInference, 400, "Input text cannot be empty.")
               /\ UNCHANGED <<Sessions, heap, pc, local, started>>
           ELSE IF session_id \notin DOMAIN Sessions THEN
               /\ resp' = HTTPException(req, NoInference, 404, "Session not found. Start a new chat.")
               /\ UNCHANGED <<Sessions, heap, pc, local, started>>
           ELSE IF infer = InferenceError THEN
               \* the exception is caught at main.py:425
               /\ resp' = HTTPException(req, infer, 500, "Chat failed")
               /\ UNCHANGED <<Sessions, heap, pc, local, started>>
           ELSE
               \* emotion = model.config.id2label[max_index]
               /\ started' = started + 1
               /\ local' = [local EXCEPT ![t] = Classified(req, text, infer)]
               /\ pc' = [pc EXCEPT ![t] = "classified"]
               /\ UNCHANGED <<Sessions, heap, resp>>
    /\ UNCHANGED <<log, probe>>

\* main.py:405  history = Sessions.get(session_id, []): the stored list itself.
chat_message_get(t) ==
    /\ pc[t] = "classified"
    /\ LET session_id == local[t].session_id
           history == IF session_id \in DOMAIN Sessions
                      THEN Sessions[session_id] ELSE NewList(Sessions, local)
       IN  local' = [local EXCEPT ![t].history = history]
    /\ pc' = [pc EXCEPT ![t] = "got"]
    /\ UNCHANGED <<Sessions, heap, resp, started, log, probe>>

\* main.py:406  history.append({"role": "user", "content": text})
chat_message_append_user(t) ==
    /\ pc[t] = "got"
    /\ LET turn == [role |-> "user", content |-> local[t].text]
       IN  /\ heap' = [heap EXCEPT ![local[t].history] = Append(@, turn)]
           /\ log' = [log EXCEPT ![local[t].session_id] =
                  Append(@, [turn |-> turn, xid |-> local[t].xid])]
    /\ pc' = [pc EXCEPT ![t] = "user_appended"]
    /\ UNCHANGED <<Sessions, local, resp, started, probe>>

\* main.py:408-411  the reply is composed and appended.
chat_message_append_assistant(t) ==
    /\ pc[t] = "user_appended"
    /\ LET reply == generate_therapeutic_reply(
                        local[t].text, local[t].emotion, local[t].stress,
                        local[t].academic_stress, local[t].risk,
                        heap[local[t].history])
           bot_message == reply.bot_message
           turn == [role |-> "assistant", content |-> bot_message]
       IN  /\ local' = [local EXCEPT ![t].bot_message = bot_message,
                                     ![t].techniques = reply.techniques]
           /\ heap' = [heap EXCEPT ![local[t].history] = Append(@, turn)]
           /\ log' = [log EXCEPT ![local[t].session_id] =
                  Append(@, [turn |-> turn, xid |-> local[t].xid])]
    /\ pc' = [pc EXCEPT ![t] = "assistant_appended"]
    /\ UNCHANGED <<Sessions, resp, started, probe>>

\* main.py:412-422  Sessions[session_id] = history[-20:], and the response.
chat_message_store(t) ==
    /\ pc[t] = "assistant_appended"
    /\ LET session_id == local[t].session_id
           new == NewList(Sessions, local)
           sess == [s \in DOMAIN Sessions \cup {session_id} |->
                       IF s = session_id THEN new ELSE Sessions[s]]
           loc == [local EXCEPT ![t] = NoLocal]
       IN  /\ Sessions' = sess
           /\ local' = loc
           /\ heap' = Collect([heap EXCEPT ![new] = LastTurns(heap[local[t].history])],
                              sess, loc)
    /\ resp' = [req |-> local[t].req, infer |-> local[t].emotion, status |-> 200, body |->
                   [bot_message |-> local[t].bot_message,
                    emotion |-> local[t].emotion,
                    stress_level |-> local[t].stress,
                    academic_stress_category |-> local[t].academic_stress,
                    risk_level |-> local[t].risk,
                    overall_status |-> local[t].overall,
                    techniques |-> local[t].techniques]]
    /\ pc' = [pc EXCEPT ![t] = "idle"]
    /\ UNCHANGED <<started, log, probe>>

---------------------------------------------------------------------------
\* Direct application of the cascade to a tier triple.

apply_overall_status_engine(emotion, stress, academic_stress, risk) ==
    /\ probe' = [fn |-> "overall_status_engine",
                 args |-> [emotion |-> emotion, stress |-> stress,
                           academic_stress |-> academic_stress, risk |-> risk],
                 out |-> overall_status_engine(emotion, stress, academic_stress, risk)]
    /\ UNCHANGED <<Sessions, heap, pc, local, resp, started, log>>

---------------------------------------------------------------------------
\* Specifications.

NoProbe ==
    [fn |-> "none",
     args |-> [emotion |-> "", stress |-> "", academic_stress |-> "", risk |-> ""],
     out |-> ""]

Init ==
    /\ Sessions = [s \in {} |-> NoList]
    /\ heap = [n \in ListIds |-> <<>>]
    /\ pc = [t \in Threads |-> "idle"]
    /\ local = [t \in Threads |-> NoLocal]
    /\ resp = NoResp
    /\ started = 0
    /\ log = [s \in SessionIds \cup {UnknownId} |-> <<>>]
    /\ probe = NoProbe

\* One application per behaviour: of the stateless endpoint to a sample text and
\* an inference outcome, or of the cascade to a tier triple.
NextAnalyze ==
    /\ resp = NoResp
    /\ probe = NoProbe
    /\ \/ \E text \in Texts, infer \in InferOutcomes :
              analyze_text(1, [text |-> text], infer)
       \/ \E emotion \in Emotions, stress \in StressTiers,
             academic_stress \in AcademicCategories, risk \in RiskTiers :
              apply_overall_status_engine(emotion, stress, academic_stress, risk)

SpecAnalyze == Init /\ [][NextAnalyze]_vars

InFlight(s) == {t \in Threads : pc[t] # "idle" /\ local[t].session_id = s}

\* Progress of a request that passed validation.
chat_message_step(t) ==
    \/ chat_message_get(t)
    \/ chat_message_append_user(t)
    \/ chat_message_append_assistant(t)
    \/ chat_message_store(t)

\* Any number of threads, any requests, any interleaving.
Next ==
    \/ \E t \in Threads : chat_start(t)
    \/ \E t \in Threads, session_id \in SessionIds \cup {UnknownId},
          text \in ChatTexts, infer \in ChatOutcomes :
           /\ started < MaxExchanges
           /\ chat_message_receive(t, [session_id |-> session_id, text |-> text], infer)
    \/ \E t \in Threads : chat_message_step(t)

Spec == Init /\ [][Next]_vars

\* Exchanges overlap only when they target different sessions.
NextDistinct ==
    \/ \E t \in Threads : chat_start(t)
    \/ \E t \in Threads, session_id \in SessionIds,
          text \in DistinctTexts, infer \in DistinctOutcomes :
           /\ started < MaxExchanges
           /\ InFlight(session_id) = {}
           /\ chat_message_receive(t, [session_id |-> session_id, text |-> text], infer)
    \/ \E t \in Threads : chat_message_step(t)

SpecDistinct == Init /\ [][NextDistinct]_vars

\* One conversation, one request at a time: chat_start, then successful
\* chat_message calls that do not overlap.
NextSeq ==
    \/ /\ DOMAIN Sessions = {}
       /\ chat_start(1)
    \/ \E session_id \in DOMAIN Sessions, text \in SeqTexts, infer \in SeqOutcomes :
           /\ \A t \in Threads : pc[t] = "idle"
           /\ started < MaxSeqExchanges
           /\ chat_message_receive(1, [session_id |-> session_id, text |-> text], infer)
    \/ chat_message_step(1)

SpecSeq == Init /\ [][NextSeq]_vars

---------------------------------------------------------------------------
\* Properties.

\* The message a response or an exchange classified.
TextOf(req) == strip_of[req.text]

\* A response carrying a classification of a message under one of the seven labels.
ClassifiedResponse ==
    /\ resp.status = 200
    /\ resp.req.endpoint \in {"analyze", "chat_message"}
    /\ resp.infer \in Emotions

MatchesHigh(text) == AnyIn(high_keywords, lower(text))
MatchesBurnout(text) == AnyIn(burnout_keywords, lower(text))
MatchesMedium(text) == AnyIn(medium_keywords, lower(text))
MatchesAcademic(text) == AnyIn(academic_keywords, lower(text))
MatchesRisk(text) ==
    AnyIn(high_risk_keywords, lower(text)) \/ AnyIn(moderate_risk_keywords, lower(text))

\* C1: for every message and every label of the seven, the response's overall
\* status is critical if and only if the risk detector returned high_risk.
C1_CriticalIffHighRisk ==
    ClassifiedResponse =>
        /\ resp.body.risk_level = risk_detector(TextOf(resp.req))
        /\ resp.body.overall_status = "critical" <=> resp.body.risk_level = "high_risk"

\* C1 witness: a high_risk message whose stress tier and academic category are
\* both low is answered critical.
C1_Witness ==
    /\ ClassifiedResponse
    /\ resp.body.overall_status = "critical"
    /\ resp.body.stress_level = "low"
    /\ resp.body.academic_stress_category = "academic_stress_low"

\* C1 witness of the other direction: high academic stress and a high stress
\* tier without a high-risk phrase are not critical.
C1_WitnessNotCritical ==
    /\ ClassifiedResponse
    /\ resp.body.overall_status # "critical"
    /\ resp.body.stress_level = "high"
    /\ resp.body.academic_stress_category = "academic_stress_high"
    /\ resp.body.risk_level = "moderate_risk"

\* The six rules of the cascade as a decision table over disjoint cases.
CascadeTable(stress, academic_stress, risk, out) ==
    /\ risk = "high_risk" => out = "critical"
    /\ risk = "moderate_risk" => out = "high_stress"
    /\ risk = "safe" =>
        /\ academic_stress \in {"academic_stress_high", "burnout"} => out = "high_stress"
        /\ academic_stress = "academic_stress_medium" => out = "moderate_stress"
        /\ academic_stress = "academic_stress_low" =>
            /\ stress = "medium" => out = "moderate_stress"
            /\ stress = "low" => out = "low_stress"
            /\ stress = "high" => out = "normal"

\* C7: overall_status_engine is total over the 3 x 4 x 3 triples and equals the
\* six-rule cascade, priority risk > academic > stress; the emotion argument
\* never changes the result.
C7_CascadeTotal ==
    probe.fn = "overall_status_engine" =>
        LET a == probe.args IN
        /\ probe.out \in OverallStatuses
        /\ CascadeTable(a.stress, a.academic_stress, a.risk, probe.out)
        /\ \A e \in Emotions :
            overall_status_engine(e, a.stress, a.academic_stress, a.risk) = probe.out

\* C7 witness: the signals disagree (risk safe, stress low, academic burnout)
\* and the academic signal decides.
C7_Witness ==
    /\ probe.fn = "overall_status_engine"
    /\ probe.args.risk = "safe"
    /\ probe.args.stress = "low"
    /\ probe.args.academic_stress = "burnout"
    /\ probe.out = "high_stress"

\* C8: the academic classifier takes the first matching group in the order
\* high-severity, burnout, medium-severity, academic context, emotion fallback;
\* the emotion matters only in the last two.
C8_KeywordPrecedence ==
    ClassifiedResponse =>
        LET text == TextOf(resp.req)
            emotion == resp.body.emotion
            out == resp.body.academic_stress_category
            H == MatchesHigh(text)
            B == MatchesBurnout(text)
            M == MatchesMedium(text)
            A == MatchesAcademic(text)
        IN  /\ H => out = "academic_stress_high"
            /\ ~H /\ B => out = "burnout"
            /\ ~H /\ ~B /\ M => out = "academic_stress_medium"
            /\ ~H /\ ~B /\ ~M /\ A =>
                out = IF emotion \in {"fear", "sadness", "anger"} THEN "academic_stress_high"
                      ELSE IF emotion = "surprise" THEN "academic_stress_medium"
                      ELSE "academic_stress_low"
            /\ ~H /\ ~B /\ ~M /\ ~A =>
                out = IF emotion \in {"fear", "sadness", "anger"} THEN "academic_stress_medium"
                      ELSE "academic_stress_low"
            /\ H \/ B \/ M =>
                \A e \in Emotions : pipeline_of[text, e].academic_stress = out

\* C8 witness: a message matching the burnout, medium and academic-context
\* groups at once, but no high-severity phrase, is classified burnout.
C8_Witness ==
    /\ ClassifiedResponse
    /\ ~MatchesHigh(TextOf(resp.req))
    /\ MatchesBurnout(TextOf(resp.req))
    /\ MatchesMedium(TextOf(resp.req))
    /\ MatchesAcademic(TextOf(resp.req))
    /\ resp.body.academic_stress_category = "burnout"

\* C10: the cascade falls through to normal exactly for (risk safe, academic
\* low, stress high); in the pipeline normal occurs only for disgust on a
\* message without risk, high-severity, burnout or medium keyword, where joy and
\* neutral give low_stress; fear, sadness and anger never give normal or low_stress.
C10_NormalOnlyDisgust ==
    /\ probe.fn = "overall_status_engine" =>
        (probe.out = "normal" <=>
            /\ probe.args.risk = "safe"
            /\ probe.args.academic_stress = "academic_stress_low"
            /\ probe.args.stress = "high")
    /\ ClassifiedResponse =>
        LET text == TextOf(resp.req) IN
        /\ resp.body.overall_status = "normal" =>
            /\ resp.body.emotion = "disgust"
            /\ ~MatchesRisk(text)
            /\ ~MatchesHigh(text) /\ ~MatchesBurnout(text) /\ ~MatchesMedium(text)
            /\ pipeline_of[text, "joy"].overall = "low_stress"
            /\ pipeline_of[text, "neutral"].overall = "low_stress"
        /\ resp.body.emotion \in {"fear", "sadness", "anger"} =>
            resp.body.overall_status \notin {"normal", "low_stress"}

\* C10 witness: a disgust message with an academic-context word is answered normal.
C10_Witness ==
    /\ ClassifiedResponse
    /\ resp.body.emotion = "disgust"
    /\ MatchesAcademic(TextOf(resp.req))
    /\ resp.body.overall_status = "normal"

AllIdle == \A t \in Threads : pc[t] = "idle"

\* The turns of a session's log, without the exchange ids.
Turns(s) == [i \in 1..Len(log[s]) |-> log[s][i].turn]

\* h is the last n elements of full, in order.
IsSuffix(h, full, n) ==
    /\ Len(h) = n
    /\ n <= Len(full)
    /\ \A i \in 1..n : h[i] = full[Len(full) - n + i]

Min(a, b) == IF a <= b THEN a ELSE b

\* The number of successful exchanges on session s.
Exchanges(s) == Cardinality({log[s][i].xid : i \in 1..Len(log[s])})

\* C2: between calls, every session's history has at most 20 turns and is the
\* most recent min(2n, 20) turns ever appended to it, in their order, n being
\* the number of successful exchanges on the session.
C2_BoundedSuffix ==
    AllIdle =>
        \A s \in DOMAIN Sessions :
            /\ Len(History(s)) <= 20
            /\ Len(log[s]) = 2 * Exchanges(s)
            /\ IsSuffix(History(s), Turns(s), Min(2 * Exchanges(s), 20))

\* C2 witness: an eleventh exchange has completed and the oldest turns are gone.
C2_Witness ==
    /\ AllIdle
    /\ \E s \in DOMAIN Sessions :
        /\ Exchanges(s) = 11
        /\ Len(History(s)) = 20
        /\ History(s)[1] # Turns(s)[1]
        /\ History(s)[1] = Turns(s)[3]

\* The exchange ids of session s that have run to completion.
Completed(s) ==
    {log[s][i].xid : i \in 1..Len(log[s])} \ {local[t].xid : t \in Threads}

\* The two turns of exchange x on session s: the user turn, then its reply.
PairOf(s, x) ==
    LET u == CHOOSE i \in 1..Len(log[s]) :
                 log[s][i].xid = x /\ log[s][i].turn.role = "user"
        a == CHOOSE i \in 1..Len(log[s]) :
                 log[s][i].xid = x /\ log[s][i].turn.role = "assistant"
    IN  <<log[s][u].turn, log[s][a].turn>>

\* The history after the exchanges of order, one after the other.
RECURSIVE SerialHistory(_, _, _)
SerialHistory(s, order, k) ==
    IF k = 0 THEN <<>>
    ELSE LET h == SerialHistory(s, order, k - 1) \o PairOf(s, order[k])
         IN  IF Len(h) <= 20 THEN h ELSE SubSeq(h, Len(h) - 19, Len(h))

\* The orders in which the exchanges of X can run one after the other.
Orders(X) ==
    {f \in [1..Cardinality(X) -> X] : \A i, j \in 1..Cardinality(X) : f[i] = f[j] => i = j}

\* C3: exchanges on one session are serialized: once none is in flight, the
\* stored history is the one some serial order of the completed exchanges gives.
C3_Serialized ==
    \A s \in DOMAIN Sessions :
        InFlight(s) = {} =>
            \E order \in Orders(Completed(s)) :
                History(s) = SerialHistory(s, order, Cardinality(Completed(s)))

ChatRequests ==
    {ChatReq(session_id, text) :
        session_id \in SessionIds \cup {UnknownId},
        text \in ChatTexts \cup DistinctTexts \cup SeqTexts}

\* This step is chat_message taking request r up to the end of classification,
\* with o what the inference step yielded: it answered at once, or it went on
\* to the exchange.
Received(r, o) ==
    \/ pc' = pc /\ resp' # resp /\ resp'.req = r /\ resp'.infer = o
    \/ \E t \in Threads :
           pc[t] = "idle" /\ pc'[t] # "idle" /\ local'[t].req = r /\ local'[t].emotion = o

\* C4: chat_message with non-blank text and a session id chat_start has not
\* returned answers 404, classifies nothing and leaves the store as it was.
C4_UnknownSessionNotFound ==
    [][\A r \in ChatRequests :
          (TextOf(r) # "" /\ r.session_id \notin DOMAIN Sessions) =>
              \A o \in InferOutcomes \cup {NoInference} :
                  Received(r, o) =>
                      /\ resp'.req = r
                      /\ o = NoInference
                      /\ resp'.status = 404
                      /\ DOMAIN resp'.body = {"detail"}
                      /\ UNCHANGED <<Sessions, heap, log, pc, local, started>>]_vars

\* C4 witness: a 404 for an id that no session has, while a session holds turns.
C4_Witness ==
    /\ resp.status = 404
    /\ resp.req.session_id \notin DOMAIN Sessions
    /\ \E s \in DOMAIN Sessions : History(s) # <<>>

\* C5: when inference fails the exchange ends in a 500, distinct from the 400
\* and the 404, carries no classification, and no history has changed.
C5_InferenceFailureNoAppend ==
    [][\A r \in ChatRequests :
          (TextOf(r) # "" /\ r.session_id \in DOMAIN Sessions
              /\ Received(r, InferenceError)) =>
              /\ resp'.req = r
              /\ resp'.status = 500
              /\ DOMAIN resp'.body = {"detail"}
              /\ UNCHANGED <<Sessions, heap, log, pc, local, started>>]_vars

\* C5 witness: a 500 for a failed inference on a session that holds turns.
C5_Witness ==
    /\ resp.status = 500
    /\ resp.infer = InferenceError
    /\ resp.req.session_id \in DOMAIN Sessions
    /\ History(resp.req.session_id) # <<>>

\* C6: a label outside the seven is rejected: no exchange proceeds with it and
\* no response carries a classification made from it.
C6_OtherLabelRejected ==
    /\ \A t \in Threads : pc[t] # "idle" => local[t].emotion \in Emotions
    /\ (resp.status = 200 /\ resp.req.endpoint \in {"analyze", "chat_message"}) =>
           resp.infer \in Emotions

\* The stored history of session s, or nothing when s has none.
Stored(s) == IF s \in DOMAIN Sessions THEN History(s) ELSE <<>>

\* C9: with overlap only between exchanges on different sessions, a step changes
\* the history of a session only if it is a step of an exchange on that session,
\* no session is removed or emptied, and between its own exchanges each session
\* holds what its own exchanges alone, one after the other, would have left.
C9_SessionsIndependent ==
    [][/\ \A s \in DOMAIN Sessions :
            /\ s \in DOMAIN Sessions'
            /\ Stored(s) # <<>> => Stored(s)' # <<>>
            /\ Stored(s)' # Stored(s) =>
                  \E t \in Threads :
                      /\ pc[t] \in {"got", "user_appended", "assistant_appended"}
                      /\ local[t].session_id = s
                      /\ pc'[t] # pc[t]
       /\ \A s \in DOMAIN Sessions' :
            InFlight(s)' = {} =>
                /\ Completed(s)' = {log'[s][i].xid : i \in 1..Len(log'[s])}
                /\ \A i \in 1..Len(log'[s]) : \A j \in 1..Len(log'[s]) :
                       i < j => log'[s][i].xid <= log'[s][j].xid
                /\ \E order \in Orders(Completed(s))' :
                       /\ \A i, j \in DOMAIN order : i < j => order[i] < order[j]
                       /\ Stored(s)' =
                              SerialHistory(s, order, Cardinality(Completed(s)))']_vars

\* C9 witness: two exchanges on different sessions are in the middle of their
\* appends at the same time, each on the stored list of its own session.
C9_Witness ==
    /\ pc[1] = "user_appended"
    /\ pc[2] = "assistant_appended"
    /\ local[1].session_id # local[2].session_id
    /\ \A t \in {1, 2} : local[t].history = Sessions[local[t].session_id]

=============================================================================
